---- MODULE Spec2Model ----
(***************************************************************************)
(* Model of android/cli/hooks/aar-transform.js: the pre-compile hook that  *)
(* hashes every bundled .aar file, reuses cached transform results, skips  *)
(* byte-identical duplicates, rejects package-name conflicts and keeps a   *)
(* JSON file cache (SimpleFileCache) across builds.                        *)
(*                                                                         *)
(* One behaviour is a sequence of builds (runs of transformAndroidLibraries)*)
(* of one project, with the file system changing between builds.           *)
(***************************************************************************)
EXTENDS Integers, Sequences, FiniteSets, TLC

\* ------------------------------------------------------------------ bounds
MaxRuns == 2
MaxTasks == 3
MaxEdits == 1

\* --------------------------------------------------------------- constants
HOOK_DATA_VERSION == "1"
BUILD_VARIANT_MODULE == "Module"
BUILD_VARIANT_APP == "App"
LIBRARY_ORIGIN_CORE == "Core"
LIBRARY_ORIGIN_MODULE == "Module"
LIBRARY_ORIGIN_PORJECT == "Project"

\* The value of a property that is absent or undefined.
Undefined == [undefined |-> TRUE]

\* No libraryInfo has been produced (yet) for a task.
NoInfo == [none |-> TRUE]

\* ------------------------------------------------------------ file system
\* .aar files an app project can bundle: one in the lib folder of each of two
\* modules (same file name) and one in platform/android.
AppPaths == {"modA/lib/x.aar", "modB/lib/x.aar", "platform/android/y.aar"}

\* .aar files in the lib folder of a module project.
ModulePaths == {"lib/x.aar", "lib/y.aar"}

PathsOf(variant) == IF variant = BUILD_VARIANT_APP THEN AppPaths ELSE ModulePaths

\* File contents, as sequences of chunks delivered by the read stream.
Contents == {<<1>>, <<2>>, <<1, 2>>}

\* The versions of the library that a path may hold.
VersionsAt(path) ==
    CASE path \in {"modA/lib/x.aar", "lib/x.aar"} -> {<<1>>, <<2>>}
      [] path \in {"modB/lib/x.aar", "lib/y.aar"} -> {<<1>>, <<1, 2>>}
      [] OTHER -> {<<1, 2>>, <<2>>}

\* The task object the scanners build for a path.
TaskOf(path) ==
    CASE path = "modA/lib/x.aar" ->
            [aarPathAndFilename |-> path, originType |-> LIBRARY_ORIGIN_MODULE,
             moduleInfo |-> [id |-> "modA"]]
      [] path = "modB/lib/x.aar" ->
            [aarPathAndFilename |-> path, originType |-> LIBRARY_ORIGIN_MODULE,
             moduleInfo |-> [id |-> "modB"]]
      [] OTHER ->
            [aarPathAndFilename |-> path, originType |-> LIBRARY_ORIGIN_PORJECT,
             moduleInfo |-> Undefined]

\* Sequences of pairwise different paths, at most MaxTasks long.
DistinctSeqs(S) ==
    UNION {{s \in [1..n -> S] : \A i, j \in 1..n : i # j => s[i] # s[j]} : n \in 0..MaxTasks}

\* scanProjectAndStartTransform: the .aar files of the modules, in the order
\* of builder.nativeLibModules, then those of platform/android.
ScanProject ==
    {[i \in 1..Len(s) |-> TaskOf(s[i])] : s \in
        {s \in DistinctSeqs(AppPaths) :
            \A i, j \in 1..Len(s) :
                (i < j) => ~(TaskOf(s[i]).originType = LIBRARY_ORIGIN_PORJECT
                             /\ TaskOf(s[j]).originType = LIBRARY_ORIGIN_MODULE)}}

\* scanModuleAndStartTransform: the .aar files of builder.projLibDir, in the
\* order readdirSync lists them.
ScanModule ==
    {[i \in 1..Len(s) |-> TaskOf(s[i])] : s \in DistinctSeqs(ModulePaths)}

\* ------------------------------------------------------- hashing (sha1 hex)
\* hash.digest('hex') of the chunks fed to hash.update: one digest per
\* content, different contents giving different digests.
HashDigest(chunks) ==
    CASE chunks = <<1>> -> "d1"
      [] chunks = <<2>> -> "d2"
      [] chunks = <<1, 2>> -> "d12"
      [] chunks = <<>> -> "d0"
      [] OTHER -> "dX"

\* ------------------------------------------ the external AarTransformer
\* The package name declared in the archive's manifest (held by its first
\* chunk): contents <<1>> and <<1, 2>> are two versions of one library.
PackageNameOf(bytes) == IF Head(bytes) = 1 THEN "com.lib.one" ELSE "com.lib.two"

\* The directory the archive is exploded into: named after the file.
ExplodedPathOf(path) ==
    IF path \in {"modA/lib/x.aar", "modB/lib/x.aar", "lib/x.aar"}
    THEN "exploded-aar/x" ELSE "exploded-aar/y"

\* The result object of a successful transformer.transform call.
TransformResult(path, bytes) ==
    [packageName |-> PackageNameOf(bytes),
     explodedPath |-> ExplodedPathOf(path),
     jars |-> << <<ExplodedPathOf(path), "classes.jar">> >>,
     nativeLibraries |-> << >>]

\* ------------------------------------------------- JSON (cache file text)
\* JSON.stringify drops a property whose value is undefined.
TaskToJson(t) ==
    IF t.moduleInfo = Undefined
    THEN [aarPathAndFilename |-> t.aarPathAndFilename, originType |-> t.originType]
    ELSE t

\* Reading a property that the parsed object lacks gives undefined.
TaskFromJson(j) ==
    IF "moduleInfo" \in DOMAIN j
    THEN j
    ELSE [aarPathAndFilename |-> j.aarPathAndFilename, originType |-> j.originType,
          moduleInfo |-> Undefined]

ValueToJson(key, v) ==
    IF key = "data-version" THEN v ELSE [v EXCEPT !.task = TaskToJson(v.task)]

ValueFromJson(key, j) ==
    IF key = "data-version" THEN j ELSE [j EXCEPT !.task = TaskFromJson(j.task)]

\* JSON.stringify(this.data): the complete text of the map.
JsonStringify(data) ==
    [exists |-> TRUE, complete |-> TRUE,
     entries |-> [k \in DOMAIN data |-> ValueToJson(k, data[k])]]

\* JSON.parse succeeds on a complete text only; every proper prefix of the
\* text of an object is a syntax error.
JsonParses(file) == file.complete

JsonParse(file) == [k \in DOMAIN file.entries |-> ValueFromJson(k, file.entries[k])]

EmptyMap == [k \in {} |-> Undefined]

AbsentFile == [exists |-> FALSE, complete |-> FALSE, entries |-> EmptyMap]

\* The file while fs.writeFileSync writes it: opened with flag 'w' (truncated),
\* then holding a proper prefix of the text, up to every entry with the
\* closing brace still missing.
TruncatedFile == [exists |-> TRUE, complete |-> FALSE, entries |-> EmptyMap]

UnterminatedFile(data) == [JsonStringify(data) EXCEPT !.complete = FALSE]

\* ---------------------------------------------------------- SimpleFileCache
\* constructor, data part: the parsed file, or {} when the file is absent or
\* cannot be parsed.
CacheLoad(file) ==
    IF file.exists /\ JsonParses(file) THEN JsonParse(file) ELSE EmptyMap

\* A constructor that leaves the unreadable file in place.
CacheLoadFileKept(file) == file

\* constructor, file part: fs.unlinkSync in the catch block.
CacheLoadFile(file) ==
    IF file.exists /\ ~JsonParses(file) THEN AbsentFile ELSE file

CacheHas(data, key) == key \in DOMAIN data

CacheSet(data, key, value) ==
    [k \in DOMAIN data \cup {key} |-> IF k = key THEN value ELSE data[k]]

CacheRemove(data, key) == [k \in DOMAIN data \ {key} |-> data[k]]

CacheFlush(data) == EmptyMap

\* A version check that never finds the stored data out of date.
VersionNeverOutdated(data) == FALSE

\* transformAndroidLibraries, cache construction: a stored data-version that
\* differs from HOOK_DATA_VERSION flushes the cache; the version is then set.
VersionOutdated(data) ==
    CacheHas(data, "data-version") /\ data["data-version"] # HOOK_DATA_VERSION

OpenCache(file) ==
    LET loaded == CacheLoad(file)
    IN  CacheSet(IF VersionOutdated(loaded) THEN CacheFlush(loaded) ELSE loaded,
                 "data-version", HOOK_DATA_VERSION)

\* The cache file an older version of the hook left after a successful build
\* of the library at `path`.
OldVersionFile(path, bytes) ==
    [exists |-> TRUE, complete |-> TRUE,
     entries |-> ("data-version" :> "0") @@
                 (HashDigest(bytes) :>
                    [packageName |-> PackageNameOf(bytes),
                     explodedPath |-> ExplodedPathOf(path),
                     jars |-> << <<ExplodedPathOf(path), "classes.jar">> >>,
                     nativeLibraries |-> << >>,
                     sha256 |-> HashDigest(bytes),
                     task |-> TaskToJson(TaskOf(path))])]

\* --------------------------------------------------------------- the state
VARIABLES
    buildVariant,     \* BUILD_VARIANT_APP or BUILD_VARIANT_MODULE, fixed per project
    inputBytes,       \* disk: the content of every .aar file
    dirs,             \* disk: the exploded-aar directories that exist
    cacheFile,        \* disk: exploded-aar/state.json
    runs,             \* builds started so far
    phase,            \* "idle" (no build process), "tasks", "persist" (persist()
                      \* entered), "writing", "ended" (callback invoked, or exception)
    outcome,          \* of the last build: "none", "ok", "error", "uncaught"
    callbackErr,      \* the error handed to the build's callback ("" for none)
    errorMessage,     \* the lines of a conflict error's message (<< >> for none)
    callbacks,        \* times the build's callback was invoked
    tasks,            \* transformTasks
    tpc,              \* per task: the waterfall function it is at
    acc,              \* per task: the chunks fed to hash.update so far
    hash,             \* per task: finalHash ("" before hashing is done)
    info,             \* per task: libraryInfo handed down the waterfall
    taskErr,          \* per task: the error its waterfall ended with
    cache,            \* SimpleFileCache.data
    libraryHashMap,
    packageNameMap,
    androidLibraries, \* builder.androidLibraries, entries pushed by this build
    classPaths,       \* builder.classPaths, keys set by this build
    transformed,      \* history: tasks for which transformer.transform was called
    lookedUp,         \* history: tasks for which the cache was consulted
    reused,           \* history: tasks served from the cache
    persistCalls,     \* history: calls of cache.persist() in this build
    fileAtStart,      \* history: the cache file when this build started
    lastGoodFile,     \* history: the cache file as the last successful build left it
    edits,            \* history: .aar files replaced so far
    prev              \* history: the previous build, while the disk is as it left it

vars == <<buildVariant, inputBytes, dirs, cacheFile, runs, phase, outcome,
          callbackErr, errorMessage, callbacks, tasks, tpc, acc, hash, info, taskErr, cache,
          libraryHashMap, packageNameMap, androidLibraries, classPaths,
          transformed, lookedUp, reused, persistCalls, fileAtStart,
          lastGoodFile, edits, prev>>

diskVars == <<inputBytes, dirs, cacheFile>>
builderVars == <<androidLibraries, classPaths>>
registryVars == <<libraryHashMap, packageNameMap>>
historyVars == <<transformed, lookedUp, reused, persistCalls, fileAtStart,
                 edits, prev>>
\* lastGoodFile is listed by each action on its own.

NoPrev ==
    [ok |-> FALSE, repeat |-> FALSE, tasks |-> << >>, libraries |-> << >>,
     transforms |-> 0, reused |-> 0]

FirstPath(variant) ==
    IF variant = BUILD_VARIANT_APP THEN "modA/lib/x.aar" ELSE "lib/x.aar"

Init ==
    /\ buildVariant \in {BUILD_VARIANT_APP, BUILD_VARIANT_MODULE}
    /\ inputBytes \in {f \in [PathsOf(buildVariant) -> Contents] :
                          \A p \in PathsOf(buildVariant) : f[p] \in VersionsAt(p)}
    /\ \/ /\ cacheFile = AbsentFile
          /\ dirs = {}
       \/ /\ cacheFile = OldVersionFile(FirstPath(buildVariant),
                                        inputBytes[FirstPath(buildVariant)])
          /\ dirs = {ExplodedPathOf(FirstPath(buildVariant))}
    /\ runs = 0
    /\ phase = "idle"
    /\ outcome = "none"
    /\ callbackErr = ""
    /\ errorMessage = << >>
    /\ callbacks = 0
    /\ tasks = << >>
    /\ tpc = << >>
    /\ acc = << >>
    /\ hash = << >>
    /\ info = << >>
    /\ taskErr = << >>
    /\ cache = EmptyMap
    /\ libraryHashMap = EmptyMap
    /\ packageNameMap = EmptyMap
    /\ androidLibraries = << >>
    /\ classPaths = {}
    /\ transformed = << >>
    /\ lookedUp = {}
    /\ reused = {}
    /\ persistCalls = 0
    /\ fileAtStart = AbsentFile
    /\ lastGoodFile = cacheFile
    /\ edits = 0
    /\ prev = NoPrev

\* ------------------------------------------------------ the orchestration
MapSet(map, key, value) ==
    [k \in DOMAIN map \cup {key} |-> IF k = key THEN value ELSE map[k]]

\* async.each in place of async.eachSeries: every iteratee is invoked at once.
EachFirst(n) == 1..n

\* async.eachSeries: the iteratee is first invoked for task 1 alone, and for
\* task i + 1 when task i has called next() without error.
EachSeriesFirst(n) == {1}

EachSeriesNext(i, n) == IF i < n THEN {i + 1} ELSE {}

\* A duplicate check that never finds the hash.
IsNeverDuplicate(map, h) == FALSE

\* skipLibraryIfDuplicate: libraryHashMap[hash] is set.
IsDuplicate(map, h) == h \in DOMAIN map

\* A lookup that never reuses the cached result.
CacheNeverReusable(data, h, task, existing) == FALSE

\* A lookup that does not check that the exploded directory still exists.
CacheReusableUnchecked(data, h, task, existing) ==
    /\ CacheHas(data, h)
    /\ data[h].task.aarPathAndFilename = task.aarPathAndFilename

\* A lookup that does not compare the path the cached result was made from.
CacheReusableAnyPath(data, h, task, existing) ==
    /\ CacheHas(data, h)
    /\ data[h].explodedPath \in existing

\* doTransform: the cached result is reused when it was made from the same
\* path and its exploded directory still exists.
CacheReusable(data, h, task, existing) ==
    /\ CacheHas(data, h)
    /\ data[h].task.aarPathAndFilename = task.aarPathAndFilename
    /\ data[h].explodedPath \in existing

\* doTransform: libraryInfo built from a transform result.
LibraryInfo(result, h, task) ==
    [packageName |-> result.packageName,
     explodedPath |-> result.explodedPath,
     jars |-> result.jars,
     nativeLibraries |-> result.nativeLibraries,
     sha256 |-> h,
     task |-> task]

\* A package-name check that never finds an existing library.
HasNoExistingLibrary(map, libraryInfo) == FALSE

\* ensureUniquePackageName: packageNameMap[libraryInfo.packageName] is set.
HasExistingLibrary(map, libraryInfo) == libraryInfo.packageName \in DOMAIN map

\* A cleanup that finds no unused key.
NoUnusedKeys(data, hashMap) == {}

\* End-of-run cleanup: the cache keys, other than data-version, that are no
\* key of libraryHashMap.
UnusedKeys(data, hashMap) ==
    {key \in DOMAIN data : key # "data-version" /\ key \notin DOMAIN hashMap}

\* A cleanup with the filter inverted: the keys in use are removed.
CleanUpUsed(data, hashMap) ==
    [k \in DOMAIN data \ DOMAIN hashMap |-> data[k]]

CleanUp(data, hashMap) ==
    [k \in DOMAIN data \ UnusedKeys(data, hashMap) |-> data[k]]

\* A registration that leaves the package-name map as it is.
RegisterNameSkipped(map, libraryInfo) == map

\* updateBuilderWithTransformResult: packageNameMap[libraryInfo.packageName] =
\* libraryInfo.
RegisterName(map, libraryInfo) == MapSet(map, libraryInfo.packageName, libraryInfo)

\* updateBuilderWithTransformResult: libraryHashMap[libraryInfo.sha256] =
\* libraryInfo.
RegisterHash(map, libraryInfo) == MapSet(map, libraryInfo.sha256, libraryInfo)

\* A cache key taken from the package name.
CacheKeyByName(libraryInfo) == libraryInfo.packageName

\* updateBuilderWithTransformResult: the key of cache.set is the record's own
\* sha256 field.
CacheKeyOf(libraryInfo) == libraryInfo.sha256

\* A message line without the origin.
FormatDupeInfoNoOrigin(dupeLibraryInfo) ==
    <<dupeLibraryInfo.task.aarPathAndFilename, " (hash: ", dupeLibraryInfo.sha256, ")">>

\* formatDupeInfo: one line of the conflict message, as the strings that are
\* concatenated.  An origin is written for Module and Project only.
FormatDupeInfo(dupeLibraryInfo) ==
    <<dupeLibraryInfo.task.aarPathAndFilename, " (hash: ", dupeLibraryInfo.sha256>>
    \o (IF dupeLibraryInfo.task.originType = LIBRARY_ORIGIN_MODULE
        THEN <<", origin: ", "Module", " ", dupeLibraryInfo.task.moduleInfo.id>>
        ELSE IF dupeLibraryInfo.task.originType = LIBRARY_ORIGIN_PORJECT
        THEN <<", origin: ", "Project">>
        ELSE << >>)
    \o <<")">>

GuidanceModules ==
    "Please either select a version of these modules where the conflicting .aar file is the same or you can try removing the .aar file from one module's \"lib\" folder."

GuidanceProject ==
    "Please either remove the duplicate .aar file or change the package name of one Android Library if possible."

GuidanceMixed ==
    "Please make sure the .aar files in your project and the module match or try removing either the one in your project or in the module."

\* ensureUniquePackageName: the guidance line, chosen by the two origins; no
\* branch is taken when neither is a project and not both are modules.
Guidance(existingLibrary, libraryInfo) ==
    IF /\ existingLibrary.task.originType = LIBRARY_ORIGIN_MODULE
       /\ libraryInfo.task.originType = LIBRARY_ORIGIN_MODULE
    THEN <<GuidanceModules>>
    ELSE IF /\ existingLibrary.task.originType = LIBRARY_ORIGIN_PORJECT
            /\ libraryInfo.task.originType = LIBRARY_ORIGIN_PORJECT
    THEN <<GuidanceProject>>
    ELSE IF \/ existingLibrary.task.originType = LIBRARY_ORIGIN_PORJECT
            \/ libraryInfo.task.originType = LIBRARY_ORIGIN_PORJECT
    THEN <<GuidanceMixed>>
    ELSE << >>

\* ensureUniquePackageName: the message of the conflict error, line by line.
ConflictMessage(existingLibrary, libraryInfo) ==
    << <<"Conflicting Android Libraries with package name ",
         libraryInfo.packageName, " detected:">>,
       FormatDupeInfo(existingLibrary),
       FormatDupeInfo(libraryInfo),
       << >>,
       Guidance(existingLibrary, libraryInfo) >>

\* A fast path that is never taken.
NeverEmptyTaskList(ts) == FALSE

\* transformAndroidLibraries: transformTasks.length === 0.
IsEmptyTaskList(ts) == Len(ts) = 0

\* A final callback that takes every error for a skip.
IsFatalNever(err) == FALSE

\* A final callback that takes a skip for a failure.
IsFatalAnyError(err) == err # ""

\* The waterfall's final callback treats no error and SkipLibraryError alike.
IsFatal(err) == err # "" /\ err # "SkipLibraryError"

NewRunTasks ==
    IF buildVariant = BUILD_VARIANT_APP THEN ScanProject ELSE ScanModule

\* scan*AndStartTransform calling transformAndroidLibraries, up to the first
\* asynchronous wait: the empty fast path, or the construction of the cache
\* and the start of the series.
StartRun(ts) ==
    LET n == Len(ts) IN
    /\ phase = "idle"
    /\ runs < MaxRuns
    /\ runs' = runs + 1
    /\ tasks' = ts
    /\ acc' = [i \in 1..n |-> << >>]
    /\ hash' = [i \in 1..n |-> ""]
    /\ info' = [i \in 1..n |-> NoInfo]
    /\ taskErr' = [i \in 1..n |-> ""]
    /\ libraryHashMap' = EmptyMap
    /\ packageNameMap' = EmptyMap
    /\ androidLibraries' = << >>
    /\ classPaths' = {}
    /\ transformed' = << >>
    /\ lookedUp' = {}
    /\ reused' = {}
    /\ persistCalls' = 0
    /\ fileAtStart' = cacheFile
    /\ callbackErr' = ""
    /\ errorMessage' = << >>
    /\ prev' = IF prev.ok /\ ts = prev.tasks
               THEN [prev EXCEPT !.repeat = TRUE]
               ELSE NoPrev
    /\ IF IsEmptyTaskList(ts)
       THEN /\ phase' = "ended"
            /\ outcome' = "ok"
            /\ callbacks' = 1
            /\ tpc' = << >>
            /\ cache' = EmptyMap
            /\ cacheFile' = cacheFile
       ELSE /\ phase' = "tasks"
            /\ outcome' = "none"
            /\ callbacks' = 0
            /\ cache' = OpenCache(cacheFile)
            /\ cacheFile' = CacheLoadFile(cacheFile)
            /\ tpc' = [i \in 1..n |->
                         IF i \in EachSeriesFirst(n) THEN "hashFile" ELSE "waiting"]
    /\ UNCHANGED <<buildVariant, inputBytes, dirs, edits, lastGoodFile>>

\* The end of task i's waterfall with error err ("" for none), given the
\* cache and libraryHashMap as the task leaves them: next() starts the next
\* task or, after the last one, cleans the cache up and enters persist();
\* next(err) hands the error to the build's callback.  The caller says what
\* the error's message is.
WaterfallEnd(i, err, cacheNow, hashMapNow) ==
    LET n == Len(tasks) IN
    /\ taskErr' = [taskErr EXCEPT ![i] = err]
    /\ IF IsFatal(err)
       THEN /\ tpc' = [tpc EXCEPT ![i] = "done"]
            /\ phase' = "ended"
            /\ outcome' = "error"
            /\ callbackErr' = err
            /\ callbacks' = callbacks + 1
            /\ cache' = cacheNow
       ELSE /\ tpc' = [j \in 1..n |->
                         IF j = i THEN "done"
                         ELSE IF j \in EachSeriesNext(i, n) THEN "hashFile"
                         ELSE tpc[j]]
            /\ UNCHANGED <<outcome, callbackErr, callbacks>>
            /\ IF i = n
               THEN /\ phase' = "persist"
                    /\ cache' = CleanUp(cacheNow, hashMapNow)
               ELSE /\ phase' = phase
                    /\ cache' = cacheNow

\* hashFile, one 'readable' event: a chunk is fed to the hash, or the stream
\* has ended and the digest is handed on.
HashReadable(i) ==
    LET bytes == inputBytes[tasks[i].aarPathAndFilename] IN
    /\ phase = "tasks"
    /\ i \in DOMAIN tpc
    /\ tpc[i] = "hashFile"
    /\ IF Len(acc[i]) < Len(bytes)
       THEN /\ acc' = [acc EXCEPT ![i] = Append(@, bytes[Len(@) + 1])]
            /\ UNCHANGED <<hash, tpc>>
       ELSE /\ hash' = [hash EXCEPT ![i] = HashDigest(acc[i])]
            /\ tpc' = [tpc EXCEPT ![i] = "skipLibraryIfDuplicate"]
            /\ acc' = acc
    /\ UNCHANGED <<buildVariant, diskVars, runs, phase, outcome, callbackErr, errorMessage,
                   callbacks, tasks, info, taskErr, cache, registryVars,
                   builderVars, historyVars, lastGoodFile>>

\* hashFile, the stream's 'error' event: no listener is attached, so the
\* error is thrown as an uncaught exception and done is never called.
HashError(i) ==
    /\ phase = "tasks"
    /\ i \in DOMAIN tpc
    /\ tpc[i] = "hashFile"
    /\ phase' = "ended"
    /\ outcome' = "uncaught"
    /\ UNCHANGED <<buildVariant, diskVars, runs, callbackErr, errorMessage, callbacks, tasks,
                   tpc, acc, hash, info, taskErr, cache, registryVars,
                   builderVars, historyVars, lastGoodFile>>

SkipLibraryIfDuplicate(i) ==
    /\ phase = "tasks"
    /\ i \in DOMAIN tpc
    /\ tpc[i] = "skipLibraryIfDuplicate"
    /\ IF ~IsDuplicate(libraryHashMap, hash[i])
       THEN /\ tpc' = [tpc EXCEPT ![i] = "doTransform"]
            /\ UNCHANGED <<phase, outcome, callbackErr, callbacks, taskErr, cache>>
       ELSE WaterfallEnd(i, "SkipLibraryError", cache, libraryHashMap)
    /\ UNCHANGED <<buildVariant, diskVars, runs, errorMessage, tasks, acc, hash, info,
                   registryVars, builderVars, historyVars, lastGoodFile>>

\* doTransform up to its return: a cache hit hands the cached data on, a miss
\* calls transformer.transform.
DoTransform(i) ==
    /\ phase = "tasks"
    /\ i \in DOMAIN tpc
    /\ tpc[i] = "doTransform"
    /\ lookedUp' = lookedUp \cup {i}
    /\ IF CacheReusable(cache, hash[i], tasks[i], dirs)
       THEN /\ info' = [info EXCEPT ![i] = cache[hash[i]]]
            /\ tpc' = [tpc EXCEPT ![i] = "ensureUniquePackageName"]
            /\ reused' = reused \cup {i}
            /\ transformed' = transformed
       ELSE /\ tpc' = [tpc EXCEPT ![i] = "transform"]
            /\ transformed' = Append(transformed, i)
            /\ UNCHANGED <<info, reused>>
    /\ UNCHANGED <<buildVariant, diskVars, runs, phase, outcome, callbackErr, errorMessage,
                   callbacks, tasks, acc, hash, taskErr, cache, registryVars,
                   builderVars, persistCalls, fileAtStart, edits, prev,
                   lastGoodFile>>

\* The transform's callback with a result: the archive was exploded.
TransformDone(i) ==
    LET path == tasks[i].aarPathAndFilename
        result == TransformResult(path, inputBytes[path])
    IN
    /\ phase = "tasks"
    /\ i \in DOMAIN tpc
    /\ tpc[i] = "transform"
    /\ dirs' = dirs \cup {result.explodedPath}
    /\ info' = [info EXCEPT ![i] = LibraryInfo(result, hash[i], tasks[i])]
    /\ tpc' = [tpc EXCEPT ![i] = "ensureUniquePackageName"]
    /\ UNCHANGED <<buildVariant, inputBytes, cacheFile, runs, phase, outcome,
                   callbackErr, errorMessage, callbacks, tasks, acc, hash, taskErr, cache,
                   registryVars, builderVars, historyVars, lastGoodFile>>

\* The transform's callback with an error; the exploded directory may or may
\* not have been created before the failure.
TransformFailed(i) ==
    /\ phase = "tasks"
    /\ i \in DOMAIN tpc
    /\ tpc[i] = "transform"
    /\ \E created \in BOOLEAN :
          dirs' = IF created
                  THEN dirs \cup {ExplodedPathOf(tasks[i].aarPathAndFilename)}
                  ELSE dirs
    /\ WaterfallEnd(i, "TransformError", cache, libraryHashMap)
    /\ UNCHANGED <<buildVariant, inputBytes, cacheFile, runs, errorMessage, tasks,
                   acc, hash, info, registryVars, builderVars, historyVars, lastGoodFile>>

EnsureUniquePackageName(i) ==
    /\ phase = "tasks"
    /\ i \in DOMAIN tpc
    /\ tpc[i] = "ensureUniquePackageName"
    /\ IF HasExistingLibrary(packageNameMap, info[i])
       THEN /\ errorMessage' =
                   ConflictMessage(packageNameMap[info[i].packageName], info[i])
            /\ WaterfallEnd(i, "ConflictError", cache, libraryHashMap)
       ELSE /\ tpc' = [tpc EXCEPT ![i] = "updateBuilderWithTransformResult"]
            /\ UNCHANGED <<phase, outcome, callbackErr, errorMessage, callbacks,
                           taskErr, cache>>
    /\ UNCHANGED <<buildVariant, diskVars, runs, tasks, acc, hash, info,
                   registryVars, builderVars, historyVars, lastGoodFile>>

UpdateBuilderWithTransformResult(i) ==
    LET libraryInfo == info[i]
        hashMapNow == RegisterHash(libraryHashMap, libraryInfo)
    IN
    /\ phase = "tasks"
    /\ i \in DOMAIN tpc
    /\ tpc[i] = "updateBuilderWithTransformResult"
    /\ classPaths' = IF buildVariant = BUILD_VARIANT_MODULE
                     THEN classPaths \cup {libraryInfo.jars[k] : k \in DOMAIN libraryInfo.jars}
                     ELSE classPaths
    /\ libraryHashMap' = hashMapNow
    /\ packageNameMap' = RegisterName(packageNameMap, libraryInfo)
    /\ androidLibraries' = Append(androidLibraries, libraryInfo)
    /\ WaterfallEnd(i, "", CacheSet(cache, CacheKeyOf(libraryInfo), libraryInfo),
                    hashMapNow)
    /\ UNCHANGED <<buildVariant, diskVars, runs, errorMessage, tasks, acc, hash, info,
                   historyVars, lastGoodFile>>

\* persist(), up to fs.writeFileSync having opened (and so truncated) the file.
PersistOpen ==
    /\ phase = "persist"
    /\ phase' = "writing"
    /\ persistCalls' = persistCalls + 1
    /\ cacheFile' = TruncatedFile
    /\ UNCHANGED <<buildVariant, inputBytes, dirs, runs, outcome, callbackErr, errorMessage,
                   callbacks, tasks, tpc, acc, hash, info, taskErr, cache,
                   registryVars, builderVars, transformed, lookedUp, reused,
                   fileAtStart, edits, prev, lastGoodFile>>

\* persist() throws before the file is opened (the directory cannot be made,
\* the file cannot be opened): the exception leaves transformAndroidLibraries.
PersistOpenFailed ==
    /\ phase = "persist"
    /\ phase' = "ended"
    /\ outcome' = "uncaught"
    /\ persistCalls' = persistCalls + 1
    /\ UNCHANGED <<buildVariant, diskVars, runs, callbackErr, errorMessage, callbacks, tasks,
                   tpc, acc, hash, info, taskErr, cache, registryVars,
                   builderVars, transformed, lookedUp, reused, fileAtStart,
                   edits, prev, lastGoodFile>>

\* fs.writeFileSync wrote the whole text; persist() returns and the build's
\* callback is invoked without error.
PersistWritten ==
    /\ phase = "writing"
    /\ cacheFile' = JsonStringify(cache)
    /\ lastGoodFile' = JsonStringify(cache)
    /\ phase' = "ended"
    /\ outcome' = "ok"
    /\ callbacks' = callbacks + 1
    /\ UNCHANGED <<buildVariant, inputBytes, dirs, runs, callbackErr, errorMessage, tasks, tpc,
                   acc, hash, info, taskErr, cache, registryVars, builderVars,
                   historyVars>>

\* fs.writeFileSync fails, or the process dies, while the text is written.
PersistWriteFailed ==
    /\ phase = "writing"
    /\ phase' = "ended"
    /\ outcome' = "uncaught"
    /\ cacheFile' = UnterminatedFile(cache)
    /\ UNCHANGED <<buildVariant, inputBytes, dirs, runs, callbackErr, errorMessage, callbacks,
                   tasks, tpc, acc, hash, info, taskErr, cache, registryVars,
                   builderVars, historyVars, lastGoodFile>>

\* The build process exits: its memory is gone, the disk stays.
ProcessExit ==
    /\ phase = "ended"
    /\ phase' = "idle"
    /\ outcome' = "none"
    /\ callbackErr' = ""
    /\ errorMessage' = << >>
    /\ callbacks' = 0
    /\ tasks' = << >>
    /\ tpc' = << >>
    /\ acc' = << >>
    /\ hash' = << >>
    /\ info' = << >>
    /\ taskErr' = << >>
    /\ cache' = EmptyMap
    /\ libraryHashMap' = EmptyMap
    /\ packageNameMap' = EmptyMap
    /\ androidLibraries' = << >>
    /\ classPaths' = {}
    /\ transformed' = << >>
    /\ lookedUp' = {}
    /\ reused' = {}
    /\ persistCalls' = 0
    /\ fileAtStart' = AbsentFile
    /\ prev' = IF outcome = "ok" /\ Len(tasks) > 0 /\ runs < MaxRuns
               THEN [ok |-> TRUE, repeat |-> FALSE, tasks |-> tasks,
                     libraries |-> androidLibraries,
                     transforms |-> Len(transformed),
                     reused |-> Cardinality(reused)]
               ELSE NoPrev
    /\ UNCHANGED <<buildVariant, diskVars, runs, edits, lastGoodFile>>

\* Between builds: an exploded directory is deleted (a cleaned build folder).
DeleteDir(d) ==
    /\ phase = "idle"
    /\ runs < MaxRuns
    /\ d \in dirs
    /\ dirs' = dirs \ {d}
    /\ prev' = NoPrev
    /\ UNCHANGED <<buildVariant, inputBytes, cacheFile, runs, phase, outcome,
                   callbackErr, errorMessage, callbacks, tasks, tpc, acc, hash, info, taskErr,
                   cache, registryVars, builderVars, transformed, lookedUp,
                   reused, persistCalls, fileAtStart, edits, lastGoodFile>>

\* Between builds: an .aar file is replaced by another version of the library.
ModifyInput(p, bytes) ==
    /\ phase = "idle"
    /\ runs < MaxRuns
    /\ runs > 0
    /\ edits < MaxEdits
    /\ edits' = edits + 1
    /\ p \in DOMAIN inputBytes
    /\ bytes \in VersionsAt(p)
    /\ inputBytes[p] # bytes
    /\ inputBytes' = [inputBytes EXCEPT ![p] = bytes]
    /\ prev' = NoPrev
    /\ UNCHANGED <<buildVariant, dirs, cacheFile, runs, phase, outcome,
                   callbackErr, errorMessage, callbacks, tasks, tpc, acc, hash, info, taskErr,
                   cache, registryVars, builderVars, transformed, lookedUp,
                   reused, persistCalls, fileAtStart, lastGoodFile>>

TaskIds == 1..(MaxTasks + 1)

Next ==
    \/ \E ts \in NewRunTasks : StartRun(ts)
    \/ \E i \in TaskIds : HashReadable(i)
    \/ \E i \in TaskIds : HashError(i)
    \/ \E i \in TaskIds : SkipLibraryIfDuplicate(i)
    \/ \E i \in TaskIds : DoTransform(i)
    \/ \E i \in TaskIds : TransformDone(i)
    \/ \E i \in TaskIds : TransformFailed(i)
    \/ \E i \in TaskIds : EnsureUniquePackageName(i)
    \/ \E i \in TaskIds : UpdateBuilderWithTransformResult(i)
    \/ PersistOpen
    \/ PersistOpenFailed
    \/ PersistWritten
    \/ PersistWriteFailed
    \/ ProcessExit
    \/ \E d \in {"exploded-aar/x", "exploded-aar/y"} : DeleteDir(d)
    \/ \E p \in AppPaths \cup ModulePaths, bytes \in Contents : ModifyInput(p, bytes)

Spec == Init /\ [][Next]_vars

\* ---------------------------------------- ensureUniquePackageName in isolation
\* The three origin constants; the scanners assign only the last two.
OriginKinds == {LIBRARY_ORIGIN_CORE, LIBRARY_ORIGIN_MODULE, LIBRARY_ORIGIN_PORJECT}

\* A task for the file at `path` with the given origin; only a module task
\* has a moduleInfo.
TaskWithOrigin(origin, path) ==
    [aarPathAndFilename |-> path, originType |-> origin,
     moduleInfo |-> IF origin = LIBRARY_ORIGIN_MODULE
                    THEN [id |-> IF path = "modB/lib/x.aar" THEN "modB" ELSE "modA"]
                    ELSE Undefined]

\* ensureUniquePackageName is entered for the second task of a run whose
\* first task has been registered; the two libraries have any origins, paths
\* and contents with different digests.
InitMessage ==
    \E existingOrigin \in OriginKinds, origin \in OriginKinds,
       existingPath \in AppPaths, path \in AppPaths :
    \E existingBytes \in VersionsAt(existingPath), bytes \in VersionsAt(path) :
       LET existingLibrary ==
               LibraryInfo(TransformResult(existingPath, existingBytes),
                           HashDigest(existingBytes),
                           TaskWithOrigin(existingOrigin, existingPath))
           libraryInfo ==
               LibraryInfo(TransformResult(path, bytes), HashDigest(bytes),
                           TaskWithOrigin(origin, path))
       IN
       /\ existingPath # path
       /\ HashDigest(existingBytes) # HashDigest(bytes)
       /\ buildVariant = BUILD_VARIANT_APP
       /\ inputBytes = [p \in AppPaths |->
                          IF p = existingPath THEN existingBytes
                          ELSE IF p = path THEN bytes
                          ELSE CHOOSE b \in VersionsAt(p) : TRUE]
       /\ dirs = {existingLibrary.explodedPath, libraryInfo.explodedPath}
       /\ cacheFile = AbsentFile
       /\ runs = 1
       /\ phase = "tasks"
       /\ outcome = "none"
       /\ callbackErr = ""
       /\ errorMessage = << >>
       /\ callbacks = 0
       /\ tasks = <<existingLibrary.task, libraryInfo.task>>
       /\ tpc = <<"done", "ensureUniquePackageName">>
       /\ acc = <<existingBytes, bytes>>
       /\ hash = <<existingLibrary.sha256, libraryInfo.sha256>>
       /\ info = <<existingLibrary, libraryInfo>>
       /\ taskErr = <<"", "">>
       /\ cache = CacheSet(OpenCache(AbsentFile), CacheKeyOf(existingLibrary),
                           existingLibrary)
       /\ libraryHashMap = RegisterHash(EmptyMap, existingLibrary)
       /\ packageNameMap = RegisterName(EmptyMap, existingLibrary)
       /\ androidLibraries = <<existingLibrary>>
       /\ classPaths = {}
       /\ transformed = <<1, 2>>
       /\ lookedUp = {1, 2}
       /\ reused = {}
       /\ persistCalls = 0
       /\ fileAtStart = AbsentFile
       /\ lastGoodFile = AbsentFile
       /\ edits = 0
       /\ prev = NoPrev

NextMessage == EnsureUniquePackageName(2)

SpecMessage == InitMessage /\ [][NextMessage]_vars

\* ===================================================================
\* Properties
\* ===================================================================
TaskIx == DOMAIN tpc

\* Task i has left ensureUniquePackageName (with or without error).
PastNameCheck(i) ==
    /\ info[i] # NoInfo
    /\ tpc[i] \in {"updateBuilderWithTransformResult", "done"}

\* Task i has left skipLibraryIfDuplicate.
PastDuplicateCheck(i) ==
    /\ hash[i] # ""
    /\ tpc[i] \notin {"waiting", "hashFile", "skipLibraryIfDuplicate"}

\* Task i has left doTransform's cache lookup.
PastLookup(i) ==
    tpc[i] \in {"transform", "ensureUniquePackageName",
                "updateBuilderWithTransformResult"}
    \/ (tpc[i] = "done" /\ taskErr[i] # "SkipLibraryError")

Succeeded == phase = "ended" /\ outcome = "ok"

Failed == phase = "ended" /\ outcome = "error"

TransformedSet == {transformed[k] : k \in DOMAIN transformed}

Digests == {hash[i] : i \in TaskIx}

\* The first task, in input order, with digest d.
FirstWith(d) == CHOOSE i \in TaskIx : hash[i] = d /\ \A j \in TaskIx : hash[j] = d => i <= j

\* C1: two tasks with different digests whose records carry the same package
\* name make the run fail with the conflict error when the second of them is
\* processed, and the output list never holds two records with the same
\* package name.
C1_ConflictOnSamePackageName ==
    /\ \A i, j \in TaskIx :
          (/\ i < j
           /\ info[i] # NoInfo
           /\ PastNameCheck(j)
           /\ hash[i] # hash[j]
           /\ info[i].packageName = info[j].packageName)
          => (/\ tpc[j] = "done"
              /\ taskErr[j] = "ConflictError"
              /\ Failed
              /\ callbackErr = "ConflictError")
    /\ \A a, b \in DOMAIN androidLibraries :
          a # b => androidLibraries[a].packageName # androidLibraries[b].packageName

\* A conflict between a freshly registered library and a record served from
\* the cache.
C1_Witness ==
    \E j \in TaskIx : taskErr[j] = "ConflictError" /\ j \in reused /\ Failed

\* C2: of the tasks of one run that have the same digest, the first in input
\* order alone gets a record and a transform; each later one is skipped with
\* neither a transform nor a cache lookup; a successful run's output list holds
\* exactly one record per digest.
C2_DuplicateElision ==
    /\ \A i, j \in TaskIx :
          (i < j /\ hash[i] = hash[j] /\ PastDuplicateCheck(j))
          => (/\ tpc[j] = "done"
              /\ taskErr[j] = "SkipLibraryError"
              /\ j \notin lookedUp
              /\ j \notin TransformedSet
              /\ info[j] = NoInfo)
    /\ \A a, b \in DOMAIN transformed :
          a # b => hash[transformed[a]] # hash[transformed[b]]
    /\ \A a, b \in DOMAIN androidLibraries :
          a # b => androidLibraries[a].sha256 # androidLibraries[b].sha256
    /\ Succeeded =>
          \A d \in Digests :
             \E a \in DOMAIN androidLibraries :
                /\ androidLibraries[a].sha256 = d
                /\ androidLibraries[a].task = tasks[FirstWith(d)]

\* A successful run over two paths with the same content.
C2_Witness ==
    /\ Succeeded
    /\ \E i, j \in TaskIx : i < j /\ hash[i] = hash[j]

\* C3: a run that repeats the previous, successful run on an unchanged disk
\* invokes no transform, fails on no task, and ends with the same list of
\* records; when the previous run reused nothing, the two runs together
\* invoked one transform per distinct digest.
C3_Idempotence ==
    prev.repeat =>
       /\ transformed = << >>
       /\ outcome # "error"
       /\ \A i \in TaskIx : PastLookup(i) => i \in reused
       /\ Succeeded =>
             /\ androidLibraries = prev.libraries
             /\ prev.transforms + prev.reused = Cardinality(Digests)
             /\ prev.reused = 0 =>
                   prev.transforms + Len(transformed) = Cardinality(Digests)

\* A repeated run that succeeded with two records.
C3_Witness ==
    prev.repeat /\ Succeeded /\ Len(androidLibraries) = 2

\* C4: a run that a task fails has not called persist() and leaves the cache
\* file as the last successful run wrote it.
C4_FailureLeavesCacheFile ==
    Failed => (persistCalls = 0 /\ cacheFile = lastGoodFile)

\* C4, the part about persist() alone.
C4_NoPersistOnFailure ==
    Failed => persistCalls = 0

\* C5: after a successful run, over any task list, on a prior persisted cache,
\* the persisted cache holds data-version and no digest that is not a key of
\* libraryHashMap.
C5_PruningAnyTaskList ==
    (Succeeded /\ fileAtStart.exists /\ fileAtStart.complete) =>
       /\ cacheFile.exists /\ cacheFile.complete
       /\ "data-version" \in DOMAIN cacheFile.entries
       /\ \A key \in DOMAIN cacheFile.entries :
             key # "data-version" => key \in DOMAIN libraryHashMap

\* C5 as amended: the same, after a successful run over a task list that is
\* not empty.
C5_Pruning ==
    (Succeeded /\ Len(tasks) > 0) =>
       /\ cacheFile.exists /\ cacheFile.complete
       /\ "data-version" \in DOMAIN cacheFile.entries
       /\ \A key \in DOMAIN cacheFile.entries :
             key # "data-version" => key \in DOMAIN libraryHashMap

\* A successful run that found, in the file, a digest it did not produce.
C5_Witness ==
    /\ Succeeded
    /\ Len(tasks) > 0
    /\ fileAtStart.complete
    /\ \E key \in DOMAIN fileAtStart.entries :
          key # "data-version" /\ key \notin DOMAIN libraryHashMap

\* The run was started on a file whose data-version is not HOOK_DATA_VERSION.
StartedOutdated ==
    /\ phase # "idle"
    /\ Len(tasks) > 0
    /\ fileAtStart.exists
    /\ fileAtStart.complete
    /\ "data-version" \in DOMAIN fileAtStart.entries
    /\ fileAtStart.entries["data-version"] # HOOK_DATA_VERSION

\* What holds of every run started on an outdated file: the cache holds the
\* current version and entries of this run only, and no task is a cache hit.
FlushedBeforeTasks ==
    /\ cache["data-version"] = HOOK_DATA_VERSION
    /\ DOMAIN cache \subseteq {"data-version"} \cup DOMAIN libraryHashMap
    /\ reused = {}
    /\ \A i \in TaskIx : PastLookup(i) => i \in TransformedSet

\* C6: on an outdated file the cache is cleared before any task, no task is a
\* cache hit, and the transform is invoked for every input: N times for N
\* inputs.
C6_InvalidationEveryInput ==
    StartedOutdated =>
       /\ FlushedBeforeTasks
       /\ Succeeded => Len(transformed) = Len(tasks)

\* C6 as amended: ... and the transform is invoked for every input that is
\* not skipped as a duplicate: once per distinct digest.
C6_Invalidation ==
    StartedOutdated =>
       /\ FlushedBeforeTasks
       /\ Succeeded => Len(transformed) = Cardinality(Digests)

\* A successful run on an outdated file that held the digest of a task, made
\* from that task's path, with its exploded directory present.
C6_Witness ==
    /\ StartedOutdated
    /\ Succeeded
    /\ \E i \in TaskIx :
          /\ hash[i] \in DOMAIN fileAtStart.entries
          /\ fileAtStart.entries[hash[i]].task.aarPathAndFilename
                = tasks[i].aarPathAndFilename
          /\ i \in TransformedSet

\* The cache holds, under task i's digest, a record made from task i's path
\* whose exploded directory is gone.
StaleFor(i) ==
    /\ CacheHas(cache, hash[i])
    /\ cache[hash[i]].task.aarPathAndFilename = tasks[i].aarPathAndFilename
    /\ cache[hash[i]].explodedPath \notin dirs

\* C7: doTransform does not reuse a cached record whose exploded directory no
\* longer exists: it invokes the transform.
C7_StaleCacheRecovery ==
    [][\A i \in TaskIx :
          (tpc[i] = "doTransform" /\ StaleFor(i) /\ tpc'[i] # "doTransform")
          => (/\ tpc'[i] = "transform"
              /\ transformed' = Append(transformed, i)
              /\ i \notin reused')]_vars

\* A transform in flight for a task whose cached record is stale.
C7_Witness ==
    \E i \in TaskIx : tpc[i] = "transform" /\ StaleFor(i)

\* The run was started on a file that cannot be parsed.
StartedCorrupt ==
    /\ phase # "idle"
    /\ Len(tasks) > 0
    /\ fileAtStart.exists
    /\ ~fileAtStart.complete

Active == {i \in TaskIx : tpc[i] \notin {"waiting", "done"}}

\* C9: at most one task is being processed, task i + 1 is not started before
\* task i is done, a transform starts only when the file has been hashed to
\* the end, and at most one transform is in flight.
C9_Sequential ==
    /\ Cardinality(Active) <= 1
    /\ \A i \in TaskIx : (i + 1 \in TaskIx /\ tpc[i + 1] # "waiting") => tpc[i] = "done"
    /\ \A i \in TaskIx :
          tpc[i] \notin {"waiting", "hashFile"}
          => (/\ acc[i] = inputBytes[tasks[i].aarPathAndFilename]
              /\ hash[i] = HashDigest(acc[i]))
    /\ Cardinality({i \in TaskIx : tpc[i] = "transform"}) <= 1

\* The second task's transform is in flight.
C9_Witness ==
    2 \in TaskIx /\ tpc[2] = "transform" /\ tpc[1] = "done"

\* C10: the backing file never holds a partially written map.
C10_FileNeverPartial ==
    cacheFile.exists => cacheFile.complete

\* ------------------------------------------------------------------ C11
\* C11: a run over an empty task list ends at once with the callback invoked
\* once and without error; no cache is constructed, so the cache file is
\* neither read, created, deleted nor written, and nothing is looked up or
\* transformed.
C11_EmptyTaskListNoOp ==
    (phase # "idle" /\ Len(tasks) = 0) =>
       /\ Succeeded
       /\ callbacks = 1
       /\ callbackErr = ""
       /\ cacheFile = fileAtStart
       /\ persistCalls = 0
       /\ DOMAIN cache = {}
       /\ lookedUp = {}
       /\ transformed = << >>
       /\ androidLibraries = << >>

\* An empty run that started on a cache file that cannot be parsed, which a
\* constructed cache would have deleted.
C11_Witness ==
    /\ phase = "ended"
    /\ Len(tasks) = 0
    /\ fileAtStart.exists
    /\ ~fileAtStart.complete
    /\ cacheFile = fileAtStart

\* ------------------------------------------------------------------ C12
FatalErrors == {"TransformError", "ConflictError"}

\* C12: once a task has failed with a transform error or a conflict error, the
\* run has ended: no later task is hashed, looked up, transformed or
\* registered, nothing is persisted, and the build's callback has been invoked
\* exactly once, with the error of the failing task, which is the only one.
C12_AbortOnFirstFailure ==
    \A i \in TaskIx :
       taskErr[i] \in FatalErrors =>
          /\ Failed
          /\ callbacks = 1
          /\ callbackErr = taskErr[i]
          /\ persistCalls = 0
          /\ \A j \in TaskIx \ {i} : taskErr[j] \notin FatalErrors
          /\ Len(androidLibraries) < i
          /\ \A j \in TaskIx :
                j > i => /\ tpc[j] = "waiting"
                         /\ acc[j] = << >>
                         /\ hash[j] = ""
                         /\ info[j] = NoInfo
                         /\ taskErr[j] = ""
                         /\ j \notin lookedUp
                         /\ j \notin TransformedSet

\* A conflict at a task that is not the last one.
C12_Witness ==
    /\ Failed
    /\ \E i \in TaskIx : taskErr[i] = "ConflictError" /\ i < Len(tasks)

\* ------------------------------------------------------------------ C13
\* The run ended while a task was still reading its input: the read stream
\* emitted 'error'.
ReadFailed == phase = "ended" /\ \E i \in TaskIx : tpc[i] = "hashFile"

\* C13: when an input file cannot be read to the end while it is hashed, the
\* run is aborted and the failure reaches the caller: the build's callback is
\* invoked once, with an error, and no later step of any task runs.
C13_ReadErrorSurfaced ==
    ReadFailed =>
       /\ outcome = "error"
       /\ callbacks = 1
       /\ callbackErr # ""
       /\ \A j \in TaskIx : tpc[j] \in {"waiting", "hashFile", "done"}

\* ------------------------------------------------------------------ C14
\* Every task of the run has ended, each with success or as a skipped
\* duplicate, and no exception left the run.
OnlySkipsOrSuccess ==
    /\ phase = "ended"
    /\ Len(tasks) > 0
    /\ outcome # "uncaught"
    /\ \A i \in TaskIx : tpc[i] = "done" /\ taskErr[i] \in {"", "SkipLibraryError"}

\* C14: a duplicate skip is never a failure.  The SkipLibraryError of a task
\* never reaches the build's callback; the task after a skipped one is
\* started, or after the last one the cache is persisted; and a run in which
\* every task succeeded or was skipped ends with the callback invoked once
\* without error and the cache written to the file.
C14_DuplicateSkipNoFailure ==
    /\ callbackErr # "SkipLibraryError"
    /\ \A i \in TaskIx :
          taskErr[i] = "SkipLibraryError" =>
             /\ tpc[i] = "done"
             /\ i < Len(tasks) => tpc[i + 1] # "waiting"
             /\ i = Len(tasks) => phase \in {"persist", "writing", "ended"}
             /\ outcome = "error" =>
                   \E j \in TaskIx : j > i /\ taskErr[j] \in FatalErrors
    /\ OnlySkipsOrSuccess =>
          /\ Succeeded
          /\ callbacks = 1
          /\ callbackErr = ""
          /\ persistCalls = 1
          /\ cacheFile = JsonStringify(cache)

\* A successful run with a skipped duplicate followed by a registered task.
C14_Witness ==
    /\ Succeeded
    /\ \E i \in TaskIx :
          /\ taskErr[i] = "SkipLibraryError"
          /\ i < Len(tasks)
          /\ taskErr[i + 1] = ""
          /\ Len(androidLibraries) = 2

\* ------------------------------------------------------------------ C15
\* The cache holds a record under task i's digest when the task reaches the
\* lookup.
CachedFor(i) == hash[i] \in DOMAIN cache

\* That record was made from the path of task i and its exploded directory
\* exists.
SamePathAndExploded(i) ==
    /\ cache[hash[i]].task.aarPathAndFilename = tasks[i].aarPathAndFilename
    /\ cache[hash[i]].explodedPath \in dirs

\* The lookup of task i returns.
LookupReturns(i) ==
    /\ i \in DOMAIN tpc'
    /\ tpc[i] = "doTransform"
    /\ tpc'[i] # "doTransform"

\* The record registered for a transformed task is the cache entry under the
\* task's digest and carries the task.
OverwrittenByTransform ==
    \A i \in TaskIx :
       (tpc[i] = "done" /\ taskErr[i] = "" /\ i \in TransformedSet) =>
          /\ hash[i] \in DOMAIN cache
          /\ cache[hash[i]] = info[i]
          /\ cache[hash[i]].task = tasks[i]
          /\ cache[hash[i]].sha256 = hash[i]

\* C15: for a task whose digest is a cache key, the cached record is reused
\* without a transform exactly when its task.aarPathAndFilename equals the
\* task's path and its explodedPath exists; otherwise (the same bytes at
\* another path) the transform is invoked, and once the task is registered
\* the cache entry under the digest is the new record, carrying the new task.
C15_ReuseRequiresSamePath ==
    /\ []OverwrittenByTransform
    /\ [][\A i \in TaskIx :
            (LookupReturns(i) /\ CachedFor(i)) =>
               IF SamePathAndExploded(i)
               THEN /\ tpc'[i] = "ensureUniquePackageName"
                    /\ info'[i] = cache[hash[i]]
                    /\ reused' = reused \cup {i}
                    /\ transformed' = transformed
               ELSE /\ tpc'[i] = "transform"
                    /\ i \notin reused'
                    /\ transformed' = Append(transformed, i)]_vars

\* A task was transformed and registered although the cache the run started
\* with held a record under its digest, made from another path; the entry now
\* carries this task.
C15_Witness ==
    \E i \in TaskIx :
       /\ tpc[i] = "done"
       /\ taskErr[i] = ""
       /\ i \in TransformedSet
       /\ hash[i] \in DOMAIN OpenCache(fileAtStart)
       /\ OpenCache(fileAtStart)[hash[i]].task.aarPathAndFilename
             # tasks[i].aarPathAndFilename
       /\ OpenCache(fileAtStart)[hash[i]].explodedPath \in dirs
       /\ cache[hash[i]].task = tasks[i]

\* ------------------------------------------------------------------ C16
Contains(line, s) == \E k \in DOMAIN line : line[k] = s

\* The line names the origin of the record: its kind and, for a module, the
\* module's id.
ShowsOrigin(line, r) ==
    \E k \in DOMAIN line :
       /\ line[k] = ", origin: "
       /\ k + 1 \in DOMAIN line
       /\ line[k + 1] = r.task.originType
       /\ r.task.originType = LIBRARY_ORIGIN_MODULE =>
             (k + 3 \in DOMAIN line /\ line[k + 3] = r.task.moduleInfo.id)

\* The line names the path, the digest and the origin of the record.
DescribesLibrary(line, r) ==
    /\ Contains(line, r.task.aarPathAndFilename)
    /\ Contains(line, r.sha256)
    /\ ShowsOrigin(line, r)

\* The guidance for the case of the two origins: both Module, both Project, or
\* mixed.
GuidanceFor(e, n) ==
    IF e.task.originType = LIBRARY_ORIGIN_MODULE /\ n.task.originType = LIBRARY_ORIGIN_MODULE
    THEN {GuidanceModules}
    ELSE IF e.task.originType = LIBRARY_ORIGIN_PORJECT /\ n.task.originType = LIBRARY_ORIGIN_PORJECT
    THEN {GuidanceProject}
    ELSE IF e.task.originType # n.task.originType
    THEN {GuidanceMixed}
    ELSE {GuidanceModules, GuidanceProject, GuidanceMixed}

MessageComplete(msg, e, n) ==
    /\ Len(msg) = 5
    /\ Contains(msg[1], n.packageName)
    /\ DescribesLibrary(msg[2], e)
    /\ DescribesLibrary(msg[3], n)
    /\ Len(msg[5]) = 1
    /\ msg[5][1] \in GuidanceFor(e, n)

\* The task whose conflict error ended the run.
ConflictAt(i) == phase = "ended" /\ taskErr[i] = "ConflictError"

FromModuleOrProject(r) ==
    r.task.originType \in {LIBRARY_ORIGIN_MODULE, LIBRARY_ORIGIN_PORJECT}

DescribesCoreLibrary(line, r) ==
    /\ Contains(line, r.task.aarPathAndFilename)
    /\ Contains(line, r.sha256)
    /\ ~Contains(line, ", origin: ")

Appended == {androidLibraries[k] : k \in DOMAIN androidLibraries}

\* C17: libraryHashMap, packageNameMap and the records appended in this run
\* hold exactly the same records, one hash key and one name key for each
\* appended record; hence a record that reaches the package-name check and
\* finds its name taken has a digest different from the record holding the
\* name.
C17_RegistryConsistency ==
    /\ {libraryHashMap[h] : h \in DOMAIN libraryHashMap} = Appended
    /\ {packageNameMap[p] : p \in DOMAIN packageNameMap} = Appended
    /\ Cardinality(DOMAIN libraryHashMap) = Len(androidLibraries)
    /\ Cardinality(DOMAIN packageNameMap) = Len(androidLibraries)
    /\ \A r \in Appended :
          /\ r.sha256 \in DOMAIN libraryHashMap
          /\ libraryHashMap[r.sha256] = r
          /\ r.packageName \in DOMAIN packageNameMap
          /\ packageNameMap[r.packageName] = r
    /\ \A i \in TaskIx :
          (/\ tpc[i] = "ensureUniquePackageName"
           /\ info[i].packageName \in DOMAIN packageNameMap) =>
             packageNameMap[info[i].packageName].sha256 # info[i].sha256

\* With two libraries registered, a third record reaches the package-name
\* check and finds its name taken.
C17_Witness ==
    /\ Len(androidLibraries) = 2
    /\ \E i \in TaskIx :
          /\ tpc[i] = "ensureUniquePackageName"
          /\ info[i].packageName \in DOMAIN packageNameMap

\* ------------------------------------------------------------------ C18
\* Every entry of the map other than data-version is stored under the key
\* that equals its sha256 field.
KeyedByDigest(data) ==
    \A k \in DOMAIN data \ {"data-version"} : data[k].sha256 = k

\* C18: after any sequence of runs every entry, other than data-version, of
\* the in-memory cache and of the cache file is stored under the key equal to
\* its sha256 field, so a cache hit returns a record whose digest equals the
\* digest freshly computed from the task's file.
C18_CacheKeyIntegrity ==
    /\ KeyedByDigest(cache)
    /\ KeyedByDigest(JsonParse(cacheFile))
    /\ \A i \in reused :
          /\ info[i].sha256 = hash[i]
          /\ hash[i] = HashDigest(inputBytes[tasks[i].aarPathAndFilename])

\* A later run reused a cached record and wrote it back.
C18_Witness ==
    /\ Succeeded
    /\ runs > 1
    /\ reused # {}
    /\ \E k \in DOMAIN JsonParse(cacheFile) : k # "data-version"

\* ------------------------------------------------------------------ C19
\* The cache file holds data-version and exactly one entry per record of this
\* run's output list, under the record's digest.
FileMirrorsRun ==
    /\ cacheFile.exists
    /\ JsonParses(cacheFile)
    /\ LET data == JsonParse(cacheFile) IN
       /\ "data-version" \in DOMAIN data
       /\ data["data-version"] = HOOK_DATA_VERSION
       /\ DOMAIN data \ {"data-version"} = {r.sha256 : r \in Appended}
       /\ \A r \in Appended : data[r.sha256] = r

\* No two records of the cache file have the same packageName.
FileNamesUnique ==
    LET data == JsonParse(cacheFile) IN
    \A k1 \in DOMAIN data \ {"data-version"}, k2 \in DOMAIN data \ {"data-version"} :
       data[k1].packageName = data[k2].packageName => k1 = k2

\* The cache file was written by this version of the hook.
FileOfThisVersion ==
    /\ cacheFile.exists
    /\ JsonParses(cacheFile)
    /\ "data-version" \in DOMAIN JsonParse(cacheFile)
    /\ JsonParse(cacheFile)["data-version"] = HOOK_DATA_VERSION

\* C19 as stated: after every successful run the cache file, where this
\* version of the hook has written one, mirrors the run.
C19_FileMirrorsEveryRun == (Succeeded /\ FileOfThisVersion) => FileMirrorsRun

\* C19: after every successful run over a non-empty task list the cache file's
\* keys are data-version, with value HOOK_DATA_VERSION, and exactly the
\* digests of the records in this run's output list, each mapped to that
\* record, while a successful run over an empty task list leaves the file as
\* it was; and after any sequence of runs no two records of the cache file
\* have the same packageName.
C19_FileMirrorsRun ==
    /\ (Succeeded /\ Len(tasks) > 0) => FileMirrorsRun
    /\ (Succeeded /\ Len(tasks) = 0) => cacheFile = fileAtStart
    /\ FileNamesUnique

\* A successful run registered two libraries, and the cache it started with
\* held a digest that this run did not produce.
C19_Witness ==
    /\ Succeeded
    /\ Len(androidLibraries) = 2
    /\ \E k \in DOMAIN OpenCache(fileAtStart) \ {"data-version"} :
          k \notin DOMAIN libraryHashMap

\* ------------------------------------------------------------------ C20
\* C20: when every file read completes and every transform calls back, a run
\* that has ended has invoked the build's callback, exactly once.
C20_CallbackExactlyOnce ==
    /\ callbacks <= 1
    /\ (phase = "ended" /\ ~ReadFailed) => callbacks = 1

====
